---- MODULE Spec2Model ----
(***************************************************************************)
(* ST7567 LCD driver (src/src/lib.rs, src/src/consts.rs).                  *)
(*                                                                         *)
(* The driver owns a 1024-byte framebuffer and three collaborators: the    *)
(* DC line, the reset line and the SPI transport.  Each public operation   *)
(* is one action.  The collaborator calls an operation performs are        *)
(* recorded, in order, in `trace`; a collaborator call may fail, which is  *)
(* an input of the operation (`fail`: the index of the call that fails).   *)
(***************************************************************************)
EXTENDS Integers, Sequences, FiniteSets, TLC

VARIABLES
    buf,      \* ST7567.buf: [0..BUFFER_SIZE-1 -> 0..255]
    op,       \* the last call: <<name, args, fail>>
    result,   \* what the last call returned: "Unit", "Ok", "PinError", "SpiError"
    trace,    \* the collaborator calls the last call performed, in order
    again,    \* TRUE iff the last call repeated the call before it (same name, same args)
    changed,  \* TRUE iff the last call changed the buffer
    lit       \* the abstract pixel map: the set of pixels <<x, y>> that are lit

vars == <<buf, op, result, trace, again, changed, lit>>

(***************************************************************************)
(* consts.rs                                                               *)
(***************************************************************************)
WIDTH == 128
HEIGHT == 64
ST7567_PAGESIZE == 128
BUFFER_SIZE == 1024

ST7567_DISPON == 175          \* 0xaf
ST7567_SETSTARTLINE == 64     \* 0x40
ST7567_REG_RATIO == 32        \* 0x20
ST7567_SETPAGESTART == 176    \* 0xb0
ST7567_SETCOLL == 0           \* 0x00
ST7567_SETCOLH == 16          \* 0x10
ST7567_SEG_DIR_NORMAL == 160  \* 0xa0
ST7567_DISPNORMAL == 166      \* 0xa6
ST7567_BIAS_1_7 == 163        \* 0xa3
ST7567_ENTER_RMWMODE == 224   \* 0xe0
ST7567_EXIT_RMWMODE == 238    \* 0xee
ST7567_SETCOMREVERSE == 200   \* 0xc8
ST7567_POWERCTRL == 47        \* 0x2f
ST7567_SETCONTRAST == 129     \* 0x81

INIT_CONTRAST == 40           \* the literal contrast value of init()
RESET_LOW_MS == 10            \* reset(): Duration::from_millis(10)
RESET_SETTLE_MS == 100        \* reset(): Duration::from_millis(100)
NUM_PAGES == 8                \* show(): for page in 0..8

(***************************************************************************)
(* u8 arithmetic                                                           *)
(***************************************************************************)
U8 == 256

RECURSIVE BitOr(_, _)
\* a | b on unsigned integers
BitOr(a, b) ==
    IF a = 0 THEN b
    ELSE IF b = 0 THEN a
    ELSE (IF (a % 2 = 1) \/ (b % 2 = 1) THEN 1 ELSE 0) + 2 * BitOr(a \div 2, b \div 2)

RECURSIVE BitAnd(_, _)
\* a & b on unsigned integers
BitAnd(a, b) ==
    IF a = 0 \/ b = 0 THEN 0
    ELSE (IF (a % 2 = 1) /\ (b % 2 = 1) THEN 1 ELSE 0) + 2 * BitAnd(a \div 2, b \div 2)

\* !a on u8
BitNot(a) == (U8 - 1) - a

\* a << n on u8 (n < 8)
Shl(a, n) == (a * (2 ^ n)) % U8

\* bit n of byte a, as 0 or 1
BitOf(a, n) == (a \div (2 ^ n)) % 2

(***************************************************************************)
(* Framebuffer                                                             *)
(***************************************************************************)
Offsets == 0 .. (BUFFER_SIZE - 1)

\* [0; BUFFER_SIZE]
ZeroBuf == [i \in Offsets |-> 0]

\* as clear, but zeroing one page (ST7567_PAGESIZE bytes) instead of the buffer
clear_first_page(b) == [i \in Offsets |-> IF i < ST7567_PAGESIZE THEN 0 ELSE b[i]]

\* ST7567::clear: self.buf = [0; BUFFER_SIZE]
clear(b) == ZeroBuf


(***************************************************************************)
(* The abstract pixel map: a pixel is lit or dark, and dark until painted. *)
(***************************************************************************)
\* the map after set_pixel(x, y, value)
Painted(m, x, y, value) ==
    IF x >= WIDTH \/ y >= HEIGHT THEN m
    ELSE IF value THEN m \cup {<<x, y>>} ELSE m \ {<<x, y>>}

\* pixel (x, y) as the buffer b holds it
Lit(b, x, y) == BitOf(b[((y \div 8) * WIDTH) + x], y % 8) = 1

\* as set_pixel, but numbering the bits of a byte from the top (bit 7 = row 0)
set_pixel_msb(b, x, y, value) ==
    IF x >= WIDTH \/ y >= HEIGHT THEN b
    ELSE LET offset == ((y \div 8) * WIDTH) + x
             bit == 7 - ((y % U8) % 8)
         IN  IF value
             THEN [b EXCEPT ![offset] = BitOr(b[offset], Shl(1, bit))]
             ELSE [b EXCEPT ![offset] = BitAnd(b[offset], BitNot(Shl(1, bit)))]

\* as set_pixel, but clamping a coordinate outside the display to its edge
set_pixel_clamped(b, x, y, value) ==
    LET cx == IF x >= WIDTH THEN WIDTH - 1 ELSE x
        cy == IF y >= HEIGHT THEN HEIGHT - 1 ELSE y
        offset == ((cy \div 8) * WIDTH) + cx
        bit == (cy % U8) % 8
    IN  IF value
        THEN [b EXCEPT ![offset] = BitOr(b[offset], Shl(1, bit))]
        ELSE [b EXCEPT ![offset] = BitAnd(b[offset], BitNot(Shl(1, bit)))]

\* as set_pixel, but flipping the bit (^=) where it should set it (|=)
set_pixel_toggle(b, x, y, value) ==
    IF x >= WIDTH \/ y >= HEIGHT THEN b
    ELSE LET offset == ((y \div 8) * WIDTH) + x
             bit == (y % U8) % 8
         IN  IF value
             THEN [b EXCEPT ![offset] =
                      IF BitOf(b[offset], bit) = 1
                      THEN BitAnd(b[offset], BitNot(Shl(1, bit)))
                      ELSE BitOr(b[offset], Shl(1, bit))]
             ELSE [b EXCEPT ![offset] = BitAnd(b[offset], BitNot(Shl(1, bit)))]

\* as set_pixel_access, but letting x = WIDTH and y = HEIGHT pass the check
set_pixel_access_inclusive(x, y) ==
    IF x > WIDTH \/ y > HEIGHT THEN <<>>
    ELSE << ((y \div 8) * WIDTH) + x, (y % U8) % 8 >>

\* ST7567::set_pixel, the buffer index and the shift count it uses:
\* <<offset, bit>>, or <<>> when it returns before indexing
set_pixel_access(x, y) ==
    IF x >= WIDTH \/ y >= HEIGHT THEN <<>>
    ELSE << ((y \div 8) * WIDTH) + x, (y % U8) % 8 >>

\* as set_pixel, but storing the pixel's mask as the whole byte when lighting
set_pixel_store(b, x, y, value) ==
    IF x >= WIDTH \/ y >= HEIGHT THEN b
    ELSE LET offset == ((y \div 8) * WIDTH) + x
             bit == (y % U8) % 8
         IN  IF value
             THEN [b EXCEPT ![offset] = Shl(1, bit)]
             ELSE [b EXCEPT ![offset] = BitAnd(b[offset], BitNot(Shl(1, bit)))]

\* ST7567::set_pixel: the buffer after set_pixel(x, y, value) on buffer b
set_pixel(b, x, y, value) ==
    IF x >= WIDTH \/ y >= HEIGHT THEN b
    ELSE LET offset == ((y \div 8) * WIDTH) + x
             bit == (y % U8) % 8
         IN  IF value
             THEN [b EXCEPT ![offset] = BitOr(b[offset], Shl(1, bit))]
             ELSE [b EXCEPT ![offset] = BitAnd(b[offset], BitNot(Shl(1, bit)))]

(***************************************************************************)
(* Collaborators.  A world w is what an operation has done so far:         *)
(*   w.trace  the collaborator calls performed, in order                   *)
(*   w.fail   the number of fallible collaborator calls (line-sets and     *)
(*            transport writes) left until one fails; 0 = none fails       *)
(*   w.res    the Result of the last step: "Ok", "PinError", "SpiError"    *)
(*            ("Err": a collaborator's own error, before it is wrapped)    *)
(***************************************************************************)
\* A collaborator call is the tuple <<dev, level, bytes, ms, ok>>:
\*   dev     "dc" or "rst" (a line-set), "spi" (a transport write) or "sleep"
\*   level   the level a line is set to
\*   bytes   the bytes handed to the transport
\*   ms      the time slept
\*   ok      FALSE iff the collaborator returned Err
PinEv(pin, pin_state, ok) == <<pin, pin_state, <<>>, 0, ok>>
SpiEv(bytes, ok) == <<"spi", "-", bytes, 0, ok>>
SleepEv(ms) == <<"sleep", "-", <<>>, ms, TRUE>>

EvDev(e) == e[1]
EvLevel(e) == e[2]
EvBytes(e) == e[3]
EvMs(e) == e[4]
EvOk(e) == e[5]

World(fail) == [trace |-> <<>>, fail |-> fail, res |-> "Ok"]

Tick(n) == IF n > 0 THEN n - 1 ELSE 0

\* Pin::set_value: the platform's line-set; it succeeds unless this is the failing call
pin_set_value(w, pin, pin_state) ==
    [trace |-> Append(w.trace, PinEv(pin, pin_state, w.fail # 1)),
     fail  |-> Tick(w.fail),
     res   |-> IF w.fail = 1 THEN "Err" ELSE "Ok"]

\* SpiDevice::write: the platform's transport write
spi_device_write(w, bytes) ==
    [trace |-> Append(w.trace, SpiEv(bytes, w.fail # 1)),
     fail  |-> Tick(w.fail),
     res   |-> IF w.fail = 1 THEN "Err" ELSE "Ok"]

\* std::thread::sleep(Duration::from_millis(ms))
sleep(w, ms) == [w EXCEPT !.trace = Append(@, SleepEv(ms))]

\* fn set_pin: Err(e) => Err(Error::PinError(e))
set_pin(w, pin, pin_state) ==
    LET w1 == pin_set_value(w, pin, pin_state)
    IN  IF w1.res = "Ok" THEN w1 ELSE [w1 EXCEPT !.res = "PinError"]

\* fn spi_write: Err(e) => Err(Error::SpiError(e))
spi_write(w, bytes) ==
    LET w1 == spi_device_write(w, bytes)
    IN  IF w1.res = "Ok" THEN w1 ELSE [w1 EXCEPT !.res = "SpiError"]

(***************************************************************************)
(* Protocol driver                                                         *)
(***************************************************************************)
\* as command, but relying on the DC state an earlier call left
command_keep_dc(w, bytes) == spi_write(w, bytes)

\* as command, but writing a second time when the first write fails
command_retry(w, bytes) ==
    LET w1 == set_pin(w, "dc", "Low")
    IN  IF w1.res # "Ok" THEN w1
        ELSE LET w2 == spi_write(w1, bytes)
             IN  IF w2.res = "Ok" THEN w2 ELSE spi_write(w2, bytes)

\* ST7567::command
command(w, bytes) ==
    LET w1 == set_pin(w, "dc", "Low")
    IN  IF w1.res # "Ok" THEN w1 ELSE spi_write(w1, bytes)

\* as data, but setting the DC line as command does
data_low(w, bytes) ==
    LET w1 == set_pin(w, "dc", "Low")
    IN  IF w1.res # "Ok" THEN w1 ELSE spi_write(w1, bytes)

\* ST7567::data
data(w, bytes) ==
    LET w1 == set_pin(w, "dc", "High")
    IN  IF w1.res # "Ok" THEN w1 ELSE spi_write(w1, bytes)

\* as reset, but driving the line High first and Low last
reset_high_low(w) ==
    LET w1 == set_pin(w, "rst", "High")
    IN  IF w1.res # "Ok" THEN w1
        ELSE LET w2 == sleep(w1, RESET_LOW_MS)
                 w3 == set_pin(w2, "rst", "Low")
             IN  IF w3.res # "Ok" THEN w3
                 ELSE sleep(w3, RESET_SETTLE_MS)

\* ST7567::reset
reset(w) ==
    LET w1 == set_pin(w, "rst", "Low")
    IN  IF w1.res # "Ok" THEN w1
        ELSE LET w2 == sleep(w1, RESET_LOW_MS)
                 w3 == set_pin(w2, "rst", "High")
             IN  IF w3.res # "Ok" THEN w3
                 ELSE sleep(w3, RESET_SETTLE_MS)

\* as set_contrast, but masking the value to the controller's 6-bit range
set_contrast_masked(w, value) == command(w, <<ST7567_SETCONTRAST, BitAnd(value, 63)>>)

\* ST7567::set_contrast
set_contrast(w, value) == command(w, <<ST7567_SETCONTRAST, value>>)

\* as InitFrame, but selecting bias 1/9 (0xA2) and the inverse display (0xA7)
InitFrameBias19 ==
    << 162, ST7567_SEG_DIR_NORMAL, ST7567_SETCOMREVERSE, 167,
       BitOr(ST7567_SETSTARTLINE, 0), ST7567_POWERCTRL, BitOr(ST7567_REG_RATIO, 3),
       ST7567_DISPON, ST7567_SETCONTRAST, INIT_CONTRAST >>

\* the command frame of ST7567::init
InitFrame ==
    << ST7567_BIAS_1_7,
       ST7567_SEG_DIR_NORMAL,
       ST7567_SETCOMREVERSE,
       ST7567_DISPNORMAL,
       BitOr(ST7567_SETSTARTLINE, 0),
       ST7567_POWERCTRL,
       BitOr(ST7567_REG_RATIO, 3),
       ST7567_DISPON,
       ST7567_SETCONTRAST,
       INIT_CONTRAST >>

\* as init, but pulsing the reset line before the command sequence
init_after_reset(w) ==
    LET w1 == reset(w)
    IN  IF w1.res # "Ok" THEN w1 ELSE command(w1, InitFrame)

\* ST7567::init
init(w) == command(w, InitFrame)

\* as page_slice, but slicing from the start of the buffer whatever the page
page_slice_first(b, start_offset, end_offset) ==
    [i \in 1 .. (end_offset - start_offset) |-> b[i - 1]]

\* &self.buf[start_offset..end_offset], copied into data
page_slice(b, start_offset, end_offset) ==
    [i \in 1 .. (end_offset - start_offset) |-> b[start_offset + i - 1]]

\* as page_frame, but leaving the page number out of the page-start byte
page_frame_nopage(page) ==
    << ST7567_SETPAGESTART, ST7567_SETCOLL, ST7567_SETCOLH >>

\* the setup frame of one page of ST7567::show
page_frame(page) ==
    << BitOr(ST7567_SETPAGESTART, page % U8), ST7567_SETCOLL, ST7567_SETCOLH >>

RECURSIVE show_pages_unchecked(_, _, _)
\* as show_pages, but dropping the Result of data() instead of returning on Err
show_pages_unchecked(w, b, page) ==
    IF page >= NUM_PAGES THEN w
    ELSE LET offset == page * ST7567_PAGESIZE
             w1 == command(w, page_frame(page))
         IN  IF w1.res # "Ok" THEN w1
             ELSE LET w2 == data(w1, page_slice(b, offset, offset + ST7567_PAGESIZE))
                  IN  show_pages_unchecked([w2 EXCEPT !.res = "Ok"], b, page + 1)

RECURSIVE show_pages(_, _, _)
\* the loop of ST7567::show, from `page` on
show_pages(w, b, page) ==
    IF page >= NUM_PAGES THEN w
    ELSE LET offset == page * ST7567_PAGESIZE
             w1 == command(w, page_frame(page))
         IN  IF w1.res # "Ok" THEN w1
             ELSE LET start_offset == offset
                      end_offset == start_offset + ST7567_PAGESIZE
                      w2 == data(w1, page_slice(b, start_offset, end_offset))
                  IN  IF w2.res # "Ok" THEN w2
                      ELSE show_pages(w2, b, page + 1)

\* as show, but leaving read-modify-write mode when a page fails
show_exit_on_error(w, b) ==
    LET w1 == command(w, <<ST7567_ENTER_RMWMODE>>)
    IN  IF w1.res # "Ok" THEN w1
        ELSE LET w2 == show_pages(w1, b, 0)
             IN  IF w2.res # "Ok"
                 THEN [command([w2 EXCEPT !.res = "Ok"], <<ST7567_EXIT_RMWMODE>>)
                          EXCEPT !.res = w2.res]
                 ELSE command(w2, <<ST7567_EXIT_RMWMODE>>)

\* ST7567::show, the bounds <<start_offset, end_offset>> of the slice of the
\* buffer it takes for a page
show_range(page) ==
    LET offset == page * ST7567_PAGESIZE
        start_offset == offset
        end_offset == start_offset + ST7567_PAGESIZE
    IN  << start_offset, end_offset >>

\* ST7567::show
show(w, b) ==
    LET w1 == command(w, <<ST7567_ENTER_RMWMODE>>)
    IN  IF w1.res # "Ok" THEN w1
        ELSE LET w2 == show_pages(w1, b, 0)
             IN  IF w2.res # "Ok" THEN w2
                 ELSE command(w2, <<ST7567_EXIT_RMWMODE>>)


(***************************************************************************)
(* The driver as a state machine: one action per operation.                *)
(***************************************************************************)
\* coordinates given to set_pixel: corners, the pixels of the tests, one bit
\* of a neighbouring byte, and coordinates outside the display
PixelCoords ==
    { <<0, 0>>, <<127, 63>>, <<10, 1>>, <<10, 20>>,
      <<128, 0>>, <<0, 64>>, <<128, 64>>, <<200, 100>> }

\* values given to set_contrast
ContrastValues == {0, 40, 128, 255}

\* byte strings given to command and data
Frames == { <<1, 2>>, <<3, 4>> }

\* which fallible collaborator call of an operation that makes n of them
\* fails: none (0) or the k-th
Fails(n) == 0 .. n

\* the collaborator calls of show: two per command or data call
ShowCalls == 2 * (2 + 2 * NUM_PAGES)

\* A call is the tuple <<name, args, fail>>: the operation, its arguments and
\* which of its fallible collaborator calls fails
Call(name, args, fail) == <<name, args, fail>>

CallName(c) == c[1]
CallArgs(c) == c[2]
CallFail(c) == c[3]

\* the call c repeats the last call
Repeats(c) == CallName(op) = CallName(c) /\ CallArgs(op) = CallArgs(c)

\* ST7567::new
Init ==
    /\ buf = ZeroBuf
    /\ op = Call("new", <<>>, 0)
    /\ result = "Unit"
    /\ trace = <<>>
    /\ again = FALSE
    /\ changed = FALSE
    /\ lit = {}

DoClear ==
    LET c == Call("clear", <<>>, 0)
    IN  /\ buf' = clear(buf)
        /\ op' = c
        /\ result' = "Unit"
        /\ trace' = <<>>
        /\ again' = Repeats(c)
        /\ changed' = (buf' # buf)
        /\ lit' = {}

DoSetPixel ==
    \E p \in PixelCoords, value \in BOOLEAN :
        LET c == Call("set_pixel", <<p[1], p[2], value>>, 0)
        IN  /\ buf' = set_pixel(buf, p[1], p[2], value)
            /\ op' = c
            /\ result' = "Unit"
            /\ trace' = <<>>
            /\ again' = Repeats(c)
            /\ changed' = (buf' # buf)
            /\ lit' = Painted(lit, p[1], p[2], value)

DoReset ==
    \E f \in Fails(2) :
        LET c == Call("reset", <<>>, f)
            w == reset(World(f))
        IN  /\ buf' = buf
            /\ op' = c
            /\ result' = w.res
            /\ trace' = w.trace
            /\ again' = Repeats(c)
            /\ changed' = (buf' # buf)
            /\ lit' = lit

DoInit ==
    \E f \in Fails(2) :
        LET c == Call("init", <<>>, f)
            w == init(World(f))
        IN  /\ buf' = buf
            /\ op' = c
            /\ result' = w.res
            /\ trace' = w.trace
            /\ again' = Repeats(c)
            /\ changed' = (buf' # buf)
            /\ lit' = lit

DoSetContrast ==
    \E value \in ContrastValues, f \in Fails(2) :
        LET c == Call("set_contrast", <<value>>, f)
            w == set_contrast(World(f), value)
        IN  /\ buf' = buf
            /\ op' = c
            /\ result' = w.res
            /\ trace' = w.trace
            /\ again' = Repeats(c)
            /\ changed' = (buf' # buf)
            /\ lit' = lit

\* as DoShow, but with a show() that leaves the buffer cleared
DoShowClearing ==
    \E f \in Fails(ShowCalls) :
        LET c == Call("show", <<>>, f)
            w == show(World(f), buf)
        IN  /\ buf' = clear(buf)
            /\ op' = c
            /\ result' = w.res
            /\ trace' = w.trace
            /\ again' = Repeats(c)
            /\ changed' = (buf' # buf)
            /\ lit' = lit

DoShow ==
    \E f \in Fails(ShowCalls) :
        LET c == Call("show", <<>>, f)
            w == show(World(f), buf)
        IN  /\ buf' = buf
            /\ op' = c
            /\ result' = w.res
            /\ trace' = w.trace
            /\ again' = Repeats(c)
            /\ changed' = (buf' # buf)
            /\ lit' = lit

DoCommand ==
    \E bytes \in Frames, f \in Fails(2) :
        LET c == Call("command", <<bytes>>, f)
            w == command(World(f), bytes)
        IN  /\ buf' = buf
            /\ op' = c
            /\ result' = w.res
            /\ trace' = w.trace
            /\ again' = Repeats(c)
            /\ changed' = (buf' # buf)
            /\ lit' = lit

DoData ==
    \E bytes \in Frames, f \in Fails(2) :
        LET c == Call("data", <<bytes>>, f)
            w == data(World(f), bytes)
        IN  /\ buf' = buf
            /\ op' = c
            /\ result' = w.res
            /\ trace' = w.trace
            /\ again' = Repeats(c)
            /\ changed' = (buf' # buf)
            /\ lit' = lit

Next ==
    \/ DoClear
    \/ DoSetPixel
    \/ DoReset
    \/ DoInit
    \/ DoSetContrast
    \/ DoShow
    \/ DoCommand
    \/ DoData

Spec == Init /\ [][Next]_vars

(***************************************************************************)
(* set_pixel over the whole coordinate range: a buffer and a coordinate    *)
(* are given, and set_pixel is called on that coordinate, repeatedly, with *)
(* either value.                                                           *)
(***************************************************************************)
MaxX == 129
MaxY == 65

XInputs == (0 .. MaxX) \cup {200, U8 + 10}
YInputs == (0 .. MaxY) \cup {100, U8 + 20}

\* the prior buffer state: every byte value occurs in it, so that the pixel
\* addressed is lit at some coordinates and dark at others, among lit and
\* dark neighbours; the calls that follow bring the other prior value
GivenBufs == { [i \in Offsets |-> (37 * i + 11) % U8] }

\* of the pixel map, the given state holds the pixel addressed
PixelInit ==
    /\ buf \in GivenBufs
    /\ \E x \in XInputs, y \in YInputs :
        /\ op = Call("given", <<x, y>>, 0)
        /\ lit = IF x < WIDTH /\ y < HEIGHT /\ Lit(buf, x, y) THEN {<<x, y>>} ELSE {}
    /\ result = "Unit"
    /\ trace = <<>>
    /\ again = FALSE
    /\ changed = FALSE

PixelSetPixel ==
    \E value \in BOOLEAN :
        LET x == CallArgs(op)[1]
            y == CallArgs(op)[2]
            c == Call("set_pixel", <<x, y, value>>, 0)
        IN  /\ buf' = set_pixel(buf, x, y, value)
            /\ op' = c
            /\ result' = "Unit"
            /\ trace' = <<>>
            /\ again' = Repeats(c)
            /\ changed' = (buf' # buf)
            /\ lit' = Painted(lit, x, y, value)

PixelNext == PixelSetPixel

PixelSpec == PixelInit /\ [][PixelNext]_vars


(***************************************************************************)
(* The framebuffer alone: clear and set_pixel from construction, over      *)
(* pixels that share a byte (column 10, rows 0, 1, 2), that are neighbours *)
(* in the next column or the next page, the last pixel of the display, and *)
(* coordinates off the display.                                            *)
(***************************************************************************)
MapCoords ==
    { <<10, 0>>, <<10, 1>>, <<10, 2>>, <<11, 1>>, <<10, 9>>, <<127, 63>>,
      <<128, 0>>, <<0, 64>> }

MapSetPixel ==
    \E p \in MapCoords, value \in BOOLEAN :
        LET c == Call("set_pixel", <<p[1], p[2], value>>, 0)
        IN  /\ buf' = set_pixel(buf, p[1], p[2], value)
            /\ op' = c
            /\ result' = "Unit"
            /\ trace' = <<>>
            /\ again' = Repeats(c)
            /\ changed' = (buf' # buf)
            /\ lit' = Painted(lit, p[1], p[2], value)

MapNext == DoClear \/ MapSetPixel

MapSpec == Init /\ [][MapNext]_vars


(***************************************************************************)
(* set_contrast over every byte value: a value is given, and set_contrast  *)
(* is called with it, with every outcome of the collaborators.             *)
(***************************************************************************)
ContrastInit ==
    /\ buf = ZeroBuf
    /\ \E value \in 0 .. (U8 - 1) : op = Call("given", <<value>>, 0)
    /\ result = "Unit"
    /\ trace = <<>>
    /\ again = FALSE
    /\ changed = FALSE
    /\ lit = {}

ContrastSetContrast ==
    \E f \in Fails(2) :
        LET value == CallArgs(op)[1]
            c == Call("set_contrast", <<value>>, f)
            w == set_contrast(World(f), value)
        IN  /\ buf' = buf
            /\ op' = c
            /\ result' = w.res
            /\ trace' = w.trace
            /\ again' = Repeats(c)
            /\ changed' = (buf' # buf)
            /\ lit' = lit

ContrastNext == ContrastSetContrast

ContrastSpec == ContrastInit /\ [][ContrastNext]_vars


(***************************************************************************)
(* Reading a trace                                                         *)
(***************************************************************************)
\* every collaborator call of the trace succeeded
AllOk(t) == \A i \in DOMAIN t : EvOk(t[i])

\* the number of calls of device dev in the trace
CountDev(t, dev) == Cardinality({i \in DOMAIN t : EvDev(t[i]) = dev})

RECURSIVE BytesIn(_)
\* the number of bytes the trace hands to the transport
BytesIn(t) ==
    IF t = <<>> THEN 0
    ELSE (IF EvDev(Head(t)) = "spi" THEN Len(EvBytes(Head(t))) ELSE 0) + BytesIn(Tail(t))

\* a successful DC line-set to level, then a successful write of bytes
OkPair(level, bytes) == << PinEv("dc", level, TRUE), SpiEv(bytes, TRUE) >>

RECURSIVE FlushPages(_, _)
\* what a successful flush of buffer b performs for the pages p .. 7
FlushPages(b, p) ==
    IF p > 7 THEN <<>>
    ELSE OkPair("Low", <<176 + p, 0, 16>>)
         \o OkPair("High", [i \in 1 .. 128 |-> b[128 * p + i - 1]])
         \o FlushPages(b, p + 1)

\* what a successful flush of buffer b performs
Flush(b) == OkPair("Low", <<224>>) \o FlushPages(b, 0) \o OkPair("Low", <<238>>)

\* C1: when every line-set and transport write succeeds, show() performs
\* exactly (Low, [0xE0]), then for each page p = 0..7 in ascending order
\* (Low, [0xB0|p, 0x00, 0x10]) and (High, buf[128p .. 128p+127]), then
\* (Low, [0xEE]): 18 DC line-sets, 18 transport writes, 1050 bytes, and Ok.
C1_ShowSequence ==
    (CallName(op) = "show" /\ AllOk(trace)) =>
        /\ result = "Ok"
        /\ trace = Flush(buf)
        /\ CountDev(trace, "dc") = 18
        /\ CountDev(trace, "spi") = 18
        /\ Len(trace) = 36
        /\ BytesIn(trace) = 1050

\* a successful show() of the buffer with pixels (0,0) and (127,63) lit
C1_Witness ==
    /\ CallName(op) = "show"
    /\ result = "Ok"
    /\ buf[0] = 1
    /\ buf[1023] = 128
    /\ EvBytes(trace[6])[1] = 1
    /\ EvBytes(trace[34])[128] = 128


\* the last call of the trace is the failed data write of page k
DataWriteFailed(t, k) ==
    /\ Len(t) >= 3
    /\ EvDev(t[Len(t)]) = "spi" /\ ~EvOk(t[Len(t)])
    /\ t[Len(t) - 1] = PinEv("dc", "High", TRUE)
    /\ EvBytes(t[Len(t) - 2]) = <<176 + k, 0, 16>>

\* C2: if a DC line-set or transport write fails during show(), show()
\* returns at once with that failure's kind (PinError for a line-set,
\* SpiError for a write) and performs no further line-set or write; if the
\* data write of page k fails, no setup frame and no data of a page above k
\* and no exit-RMW byte (0xEE) is emitted.
C2_ShowAborts ==
    (CallName(op) = "show" /\ ~AllOk(trace)) =>
        LET n == Len(trace) IN
        /\ \A i \in 1 .. (n - 1) : EvOk(trace[i])
        /\ ~EvOk(trace[n])
        /\ EvDev(trace[n]) \in {"dc", "spi"}
        /\ (EvDev(trace[n]) = "dc") => (result = "PinError")
        /\ (EvDev(trace[n]) = "spi") => (result = "SpiError")
        /\ \A k \in 0 .. 7 :
               DataWriteFailed(trace, k) =>
                   /\ \A i \in 1 .. n :
                          /\ EvBytes(trace[i]) # <<238>>
                          /\ \A j \in (k + 1) .. 7 : EvBytes(trace[i]) # <<176 + j, 0, 16>>
                   /\ Cardinality({i \in 1 .. n : EvLevel(trace[i]) = "High"}) = k + 1

\* show() whose data write of page 4 failed
C2_Witness ==
    /\ CallName(op) = "show"
    /\ result = "SpiError"
    /\ Len(trace) = 22
    /\ DataWriteFailed(trace, 4)


\* the arguments of the last call, when it is set_pixel(x, y, value)
PxX == CallArgs(op)[1]
PxY == CallArgs(op)[2]
PxValue == CallArgs(op)[3]

\* C3: for every in-range coordinate (x < 128, y < 64) and every prior
\* buffer: after set_pixel(x, y, true), bit (y mod 8) of the byte at offset
\* (y div 8)*128 + x is 1; after a following set_pixel(x, y, false) it is 0.
C3_SetPixelBit ==
    (CallName(op) = "set_pixel" /\ PxX < 128 /\ PxY < 64) =>
        BitOf(buf[(PxY \div 8) * 128 + PxX], PxY % 8) = (IF PxValue THEN 1 ELSE 0)

\* pixel (0, 2), dark in the given buffer, was lit and then put out again by
\* set_pixel(0, 2, false)
C3_Witness ==
    /\ CallName(op) = "set_pixel"
    /\ CallArgs(op) = <<0, 2, FALSE>>
    /\ changed
    /\ BitOf(buf[0], 2) = 0

\* C4: for every coordinate with x >= 128 or y >= 64 (also when only one of
\* the two is out of range) and either value, set_pixel(x, y, value) leaves
\* every byte of the buffer unchanged and reports no error.
C4_OutOfRangeNoOp ==
    [][ (CallName(op') = "set_pixel"
           /\ (CallArgs(op')[1] >= 128 \/ CallArgs(op')[2] >= 64))
        => (buf' = buf /\ result' = "Unit") ]_vars

\* set_pixel(0, 64, true): only y is out of range
C4_Witness ==
    /\ CallName(op) = "set_pixel"
    /\ CallArgs(op) = <<0, 64, TRUE>>
    /\ ~changed
    /\ buf \in GivenBufs

\* C5: when the DC line-set and the transport write succeed, init() performs
\* one DC line-set to Low, then one transport write of
\* [0xA3, 0xA0, 0xC8, 0xA6, 0x40, 0x2F, 0x23, 0xAF, 0x81, 40], and returns Ok.
C5_InitSequence ==
    (CallName(op) = "init" /\ AllOk(trace)) =>
        /\ trace = OkPair("Low", <<163, 160, 200, 166, 64, 47, 35, 175, 129, 40>>)
        /\ result = "Ok"

\* init() returned Ok
C5_Witness ==
    /\ CallName(op) = "init"
    /\ result = "Ok"
    /\ Len(trace) = 2

\* C6: reset() sets the reset line Low, waits 10 ms, sets it High, waits
\* 100 ms, in that order, and touches neither the DC line nor the transport.
\* If the Low line-set fails it returns PinError and performs neither wait
\* nor the High line-set; if the High line-set fails it returns PinError and
\* does not perform the 100 ms wait.
C6_ResetSequence ==
    (CallName(op) = "reset") =>
        /\ \A i \in DOMAIN trace : EvDev(trace[i]) \notin {"dc", "spi"}
        /\ \/ /\ result = "Ok"
              /\ trace = << PinEv("rst", "Low", TRUE), SleepEv(10),
                            PinEv("rst", "High", TRUE), SleepEv(100) >>
           \/ /\ result = "PinError"
              /\ trace = << PinEv("rst", "Low", FALSE) >>
           \/ /\ result = "PinError"
              /\ trace = << PinEv("rst", "Low", TRUE), SleepEv(10),
                            PinEv("rst", "High", FALSE) >>

\* reset() whose High line-set failed, after the Low line-set and the 10 ms wait
C6_Witness ==
    /\ CallName(op) = "reset"
    /\ result = "PinError"
    /\ Len(trace) = 3
    /\ EvMs(trace[2]) = 10

\* C7: command(bytes) sets the DC line Low and data(bytes) sets it High
\* before writing.  If the line-set fails the call returns PinError and no
\* write is attempted; otherwise the bytes are written unchanged in one
\* transport write, whose failure is returned as SpiError; the call returns
\* Ok only when both succeeded.
C7_CommandData ==
    (CallName(op) \in {"command", "data"}) =>
        LET level == IF CallName(op) = "command" THEN "Low" ELSE "High"
            bytes == CallArgs(op)[1]
        IN  \/ /\ trace = << PinEv("dc", level, FALSE) >>
               /\ result = "PinError"
            \/ /\ trace = << PinEv("dc", level, TRUE), SpiEv(bytes, FALSE) >>
               /\ result = "SpiError"
            \/ /\ trace = << PinEv("dc", level, TRUE), SpiEv(bytes, TRUE) >>
               /\ result = "Ok"

\* data([3, 4]) whose transport write failed after the DC line was set High
C7_Witness ==
    /\ CallName(op) = "data"
    /\ CallArgs(op) = << <<3, 4>> >>
    /\ result = "SpiError"
    /\ EvLevel(trace[1]) = "High"

\* C8: for every byte value v, set_contrast(v) performs one DC line-set to
\* Low, then one transport write of [0x81, v], whatever v is; a failed
\* line-set yields PinError with nothing written, a failed write SpiError.
C8_SetContrast ==
    (CallName(op) = "set_contrast") =>
        LET v == CallArgs(op)[1]
        IN  \/ /\ trace = << PinEv("dc", "Low", FALSE) >>
               /\ result = "PinError"
            \/ /\ trace = << PinEv("dc", "Low", TRUE), SpiEv(<<129, v>>, FALSE) >>
               /\ result = "SpiError"
            \/ /\ trace = OkPair("Low", <<129, v>>)
               /\ result = "Ok"

\* set_contrast(255), outside the controller's range, written as given
C8_Witness ==
    /\ CallName(op) = "set_contrast"
    /\ CallArgs(op) = <<255>>
    /\ result = "Ok"
    /\ EvBytes(trace[2]) = <<129, 255>>

\* C9: right after construction, and right after every clear() from any
\* buffer state, all 1024 bytes of the buffer are 0; construction and
\* clear() perform no line-set and no transport write and cannot fail.
C9_ZeroBuffer ==
    (CallName(op) \in {"new", "clear"}) =>
        /\ DOMAIN buf = 0 .. 1023
        /\ \A i \in 0 .. 1023 : buf[i] = 0
        /\ trace = <<>>
        /\ result = "Unit"

\* clear() of a buffer that had a pixel lit
C9_Witness ==
    /\ CallName(op) = "clear"
    /\ changed
    /\ buf[1023] = 0

\* C10: set_pixel is idempotent: for every coordinate (in range or not),
\* every value and every buffer state, calling set_pixel(x, y, value) twice
\* in a row leaves the buffer as it was after the first call.
C10_SetPixelIdempotent ==
    [][ (CallName(op) = "set_pixel" /\ CallName(op') = "set_pixel"
           /\ CallArgs(op') = CallArgs(op))
        => (buf' = buf) ]_vars

\* the second of two set_pixel(0, 2, true) in a row
C10_Witness ==
    /\ CallName(op) = "set_pixel"
    /\ CallArgs(op) = <<0, 2, TRUE>>
    /\ again
    /\ BitOf(buf[0], 2) = 1


\* the operations that return Result<(), Error<P, S>>
Fallible == {"command", "data", "reset", "init", "set_contrast", "show"}

\* the last call returned Err
Failed == result \in {"PinError", "SpiError"}

\* the line-sets and transport writes of the trace that succeeded
Effects(t) == {i \in DOMAIN t : EvDev(t[i]) \in {"dc", "rst", "spi"} /\ EvOk(t[i])}

\* C11 as stated: a fallible operation that returns an error has attempted
\* no failed line-set or write a second time, and none of its line-sets or
\* transport writes has taken effect on the collaborators.
C11_NoEffectOnError ==
    (CallName(op) \in Fallible /\ Failed) =>
        /\ Cardinality({i \in DOMAIN trace : ~EvOk(trace[i])}) = 1
        /\ Effects(trace) = {}

\* C11 as amended: a fallible operation returns an error iff one of its
\* line-sets or writes failed; that call is attempted once and is the last
\* one performed (no retry, nothing after it); the line-sets and writes
\* performed before it succeeded and stay in effect (no rollback), a
\* line-set failure giving PinError and a write failure SpiError.
C11_NoRetryNoRollback ==
    (CallName(op) \in Fallible) =>
        LET n == Len(trace) IN
        /\ \A i \in 1 .. (n - 1) : EvOk(trace[i])
        /\ Failed <=> (n > 0 /\ ~EvOk(trace[n]))
        /\ Failed => /\ Cardinality({i \in DOMAIN trace : ~EvOk(trace[i])}) = 1
                     /\ (result = "PinError") <=> (EvDev(trace[n]) \in {"dc", "rst"})
                     /\ (result = "SpiError") <=> (EvDev(trace[n]) = "spi")
                     /\ Cardinality(Effects(trace)) = CallFail(op) - 1

\* command([1, 2]) returned SpiError with its DC line-set in effect
C11_Witness ==
    /\ CallName(op) = "command"
    /\ result = "SpiError"
    /\ trace = << PinEv("dc", "Low", TRUE), SpiEv(<<1, 2>>, FALSE) >>
    /\ Effects(trace) = {1}


(***************************************************************************)
(* The controller, as far as its display RAM goes: 8 pages of 128 columns. *)
(* A byte written while the DC line is Low is a command: 0xB0|p selects    *)
(* page p, 0x00|n and 0x10|n set the low and the high four bits of the     *)
(* column cursor, any other command leaves page, cursor and RAM alone.  A  *)
(* byte written while the DC line is High is stored at (page, cursor) and  *)
(* the cursor moves on by one.  A controller c is the record               *)
(* [dc, page, col, ram].                                                   *)
(***************************************************************************)
Ctl(dc, page, col, ram) == [dc |-> dc, page |-> page, col |-> col, ram |-> ram]

\* one command byte
CtlCommand(c, byte) ==
    IF byte \in 176 .. 183 THEN [c EXCEPT !.page = byte - 176]
    ELSE IF byte \in 0 .. 15 THEN [c EXCEPT !.col = (c.col \div 16) * 16 + byte]
    ELSE IF byte \in 16 .. 31 THEN [c EXCEPT !.col = (byte - 16) * 16 + (c.col % 16)]
    ELSE c

RECURSIVE CtlCommands(_, _, _)
\* the command bytes bytes[i], bytes[i+1], ...
CtlCommands(c, bytes, i) ==
    IF i > Len(bytes) THEN c ELSE CtlCommands(CtlCommand(c, bytes[i]), bytes, i + 1)

\* a run of data bytes: byte j goes to column col + j - 1 of the page, as
\* long as that is a column of the display
CtlData(c, bytes) ==
    [c EXCEPT
        !.ram = [a \in 0 .. 1023 |->
                    IF /\ a \div 128 = c.page
                       /\ (a % 128) >= c.col
                       /\ (a % 128) < c.col + Len(bytes)
                    THEN bytes[(a % 128) - c.col + 1]
                    ELSE c.ram[a]],
        !.col = c.col + Len(bytes)]

\* one collaborator call; a failed transport write has delivered the first
\* k of its bytes, a failed line-set has not moved the line
CtlEvent(c, e, k) ==
    IF EvDev(e) = "dc"
    THEN IF EvOk(e) THEN [c EXCEPT !.dc = EvLevel(e)] ELSE c
    ELSE IF EvDev(e) = "spi"
    THEN LET all == EvBytes(e)
             got == IF EvOk(e) \/ k >= Len(all) THEN all ELSE SubSeq(all, 1, k)
         IN  IF c.dc = "Low" THEN CtlCommands(c, got, 1) ELSE CtlData(c, got)
    ELSE c

RECURSIVE CtlRun(_, _, _, _)
\* the calls t[i], t[i+1], ... of a trace
CtlRun(c, t, i, k) ==
    IF i > Len(t) THEN c ELSE CtlRun(CtlEvent(c, t[i], k), t, i + 1, k)

\* controllers before a flush: one with a foreign RAM image, the data line
\* selected and the cursor in mid-page, and what every flush of another
\* buffer that fails part-way makes of it, the failed write having
\* delivered none, one or all of its bytes
BaseCtl == Ctl("High", 5, 77, [a \in 0 .. 1023 |-> (37 * a + 11) % 256])
OtherBuf == [a \in 0 .. 1023 |-> 255 - ((a * 7) % 256)]
PriorCtls ==
    {BaseCtl} \cup
    { CtlRun(BaseCtl, show(World(f), OtherBuf).trace, 1, k) :
        f \in 1 .. ShowCalls, k \in {0, 1, ST7567_PAGESIZE} }

\* C12: after a show() that returns Ok, the controller RAM (page selected by
\* 0xB0|p, column cursor reset to 0 by 0x00/0x10, cursor moving on with each
\* data byte) holds exactly the framebuffer in all 8 pages, whatever it held
\* before and whatever earlier show() calls that failed part-way left in it.
C12_ShowFillsRam ==
    (CallName(op) = "show" /\ result = "Ok") =>
        \A c0 \in PriorCtls : CtlRun(c0, trace, 1, 0).ram = buf

\* a successful show() of a buffer with pixels lit in the first and the last
\* page, onto a controller whose RAM differs from the buffer in both and
\* that an earlier flush left one byte into page 3
C12_Witness ==
    /\ CallName(op) = "show"
    /\ result = "Ok"
    /\ buf[0] = 1
    /\ buf[1023] = 128
    /\ \E c0 \in PriorCtls :
            /\ c0.ram[0] # 1
            /\ c0.ram[1023] # 128
            /\ c0.page = 3
            /\ c0.col = 1


\* the DC state a transport write of the last operation needs: High for the
\* payload of data() and for the page payloads of show(), Low for every
\* command frame
RequiredDc(bytes) ==
    IF \/ CallName(op) = "data"
       \/ (CallName(op) = "show" /\ Len(bytes) = ST7567_PAGESIZE)
    THEN "High"
    ELSE "Low"

\* C13: every transport write is immediately preceded, in the same command()
\* or data() call, by a successful DC line-set: to Low for every command
\* byte (init sequence, contrast frame, enter/exit RMW, page setup frames),
\* to High for every page-data payload; no write relies on the DC state an
\* earlier call left.
C13_DcSetBeforeWrite ==
    \A i \in DOMAIN trace :
        (EvDev(trace[i]) = "spi") =>
            /\ i > 1
            /\ trace[i - 1] = PinEv("dc", RequiredDc(EvBytes(trace[i])), TRUE)

\* a successful show(): the payload of page 0 leaves the DC line High, and
\* the setup frame of page 1 that follows is written after a line-set to Low
C13_Witness ==
    /\ CallName(op) = "show"
    /\ result = "Ok"
    /\ trace[5] = PinEv("dc", "High", TRUE)
    /\ Len(EvBytes(trace[6])) = ST7567_PAGESIZE
    /\ trace[7] = PinEv("dc", "Low", TRUE)
    /\ trace[8] = SpiEv(<<177, 0, 16>>, TRUE)


\* C14: after any sequence of clear() and set_pixel() calls from
\* construction the buffer represents exactly the abstract pixel map: for
\* every in-range (x, y), bit (y mod 8) of byte (y div 8)*128 + x is the
\* value of the most recent in-range set_pixel(x, y, _) since the last
\* clear() (or construction), and 0 if there was none.  So a set_pixel
\* changes that one bit at most and distinct pixels never share a bit.
C14_BufferIsPixelMap ==
    \A x \in 0 .. 127, y \in 0 .. 63 :
        ((buf[(y \div 8) * 128 + x] \div (2 ^ (y % 8))) % 2) =
            (IF <<x, y>> \in lit THEN 1 ELSE 0)

\* pixels (10, 0), (10, 1) and (10, 2) were lit, then (10, 1) was put out:
\* the byte they share holds 0b00000101
C14_Witness ==
    /\ op = Call("set_pixel", <<10, 1, FALSE>>, 0)
    /\ changed
    /\ lit = {<<10, 0>>, <<10, 2>>}
    /\ buf[10] = 5


\* the operations that talk to the controller
Talkers == {"reset", "init", "set_contrast", "show"}

\* C15: reset(), init(), set_contrast() and show() never modify the
\* framebuffer, whether they succeed or fail at any step; so a show() that
\* follows a show(), both without failure and with no set_pixel/clear
\* between them, emits the same line-sets and bytes as the first.
C15_TalkersKeepBuffer ==
    [][ /\ (CallName(op') \in Talkers) => (buf' = buf)
        /\ ( /\ CallName(op) = "show" /\ result = "Ok"
             /\ CallName(op') = "show" /\ result' = "Ok" ) => (trace' = trace)
      ]_vars

\* a second show() in a row of a buffer with pixels lit, which returned Ok
\* and left the buffer as it was
C15_Witness ==
    /\ CallName(op) = "show"
    /\ again
    /\ result = "Ok"
    /\ ~changed
    /\ buf[0] = 1
    /\ buf[1023] = 128
    /\ Len(trace) = 2 * (2 + 2 * NUM_PAGES)


\* the line-sets and writes of a trace that succeeded, in order
Succeeded(t) == SelectSeq(t, EvOk)

\* the successful writes of the one byte b in a trace
WritesOf(t, b) == {i \in DOMAIN t : t[i] = SpiEv(<<b>>, TRUE)}

\* C16: the successful line-sets and transport writes of any show() call,
\* successful or failed, are a prefix of what a fully successful show() of
\* the same buffer performs; so the exit-RMW byte 0xEE is written only after
\* the setup frames and the data of all 8 pages, and a show() that fails
\* after the enter-RMW write (0xE0) has written no exit-RMW.
C16_ShowPrefix ==
    (CallName(op) = "show") =>
        LET done == Succeeded(trace)
            full == Flush(buf)
        IN  /\ Len(done) <= Len(full)
            /\ done = SubSeq(full, 1, Len(done))
            /\ \A i \in WritesOf(trace, 238) :
                   /\ i = Len(full)
                   /\ \A p \in 0 .. 7 :
                          /\ trace[4 + 4 * p] = SpiEv(<<176 + p, 0, 16>>, TRUE)
                          /\ trace[6 + 4 * p] =
                                 SpiEv([k \in 1 .. 128 |-> buf[128 * p + k - 1]], TRUE)
            /\ (result # "Ok" /\ WritesOf(trace, 224) # {}) => WritesOf(trace, 238) = {}

\* a show() of a buffer with pixels lit whose data write of page 3 failed:
\* 0xE0 and pages 0..2 are written, 0xEE is not
C16_Witness ==
    /\ CallName(op) = "show"
    /\ result = "SpiError"
    /\ buf[0] = 1
    /\ Len(trace) = 18
    /\ Len(Succeeded(trace)) = 17
    /\ WritesOf(trace, 224) = {2}
    /\ WritesOf(trace, 238) = {}
    /\ trace[16] = SpiEv(<<179, 0, 16>>, TRUE)
    /\ ~EvOk(trace[18])


\* C17: for every x and y, set_pixel never indexes outside the 1024-byte
\* buffer and never shifts by more than 7: whenever its bounds check passes,
\* the offset (y div 8)*128 + x is in 0..1023 and the bit index in 0..7; and
\* for every page 0..7 show() slices buf[128p .. 128p+128) inside the
\* buffer.  No pixel or flush operation can panic.
C17_InBounds ==
    /\ 0 \in DOMAIN buf /\ 1023 \in DOMAIN buf /\ 1024 \notin DOMAIN buf
    /\ (CallName(op) \in {"given", "set_pixel"}) =>
           LET a == set_pixel_access(PxX, PxY)
           IN  /\ (a # <<>>) <=> (PxX < 128 /\ PxY < 64)
               /\ (a # <<>>) =>
                      /\ a[1] = (PxY \div 8) * 128 + PxX
                      /\ a[1] \in 0 .. 1023
                      /\ a[2] = PxY % 8
                      /\ a[2] \in 0 .. 7
                      /\ buf[a[1]] \in 0 .. 255
    /\ \A p \in 0 .. 7 :
           LET r == show_range(p)
           IN  /\ r = << 128 * p, 128 * p + 128 >>
               /\ 0 <= r[1] /\ r[1] <= r[2] /\ r[2] <= 1024
               /\ r[2] - r[1] = 128
               /\ page_slice(buf, r[1], r[2])[1] = buf[128 * p]
               /\ page_slice(buf, r[1], r[2])[128] = buf[128 * p + 127]

\* set_pixel(127, 63, true) on the given buffer: the last byte of the buffer
\* and the highest bit, next to the coordinates that the check turns away
C17_Witness ==
    /\ op = Call("set_pixel", <<127, 63, TRUE>>, 0)
    /\ set_pixel_access(127, 63) = <<1023, 7>>
    /\ set_pixel_access(128, 63) = <<>>
    /\ set_pixel_access(127, 64) = <<>>
    /\ buf[1023] >= 128
    /\ show_range(7) = <<896, 1024>>


\* C18: the reset line is driven by reset() alone: init(), set_contrast(),
\* show(), set_pixel() and clear() never set the reset line, and set_pixel()
\* and clear() perform no DC line-set and no transport write.
C18_ResetLineOnlyByReset ==
    /\ (CallName(op) # "reset") => CountDev(trace, "rst") = 0
    /\ (CallName(op) \in {"set_pixel", "clear"}) =>
           /\ CountDev(trace, "dc") = 0
           /\ CountDev(trace, "spi") = 0

\* an init() that returned Ok: one DC line-set, one write, no call on the
\* reset line
C18_Witness ==
    /\ CallName(op) = "init"
    /\ result = "Ok"
    /\ CountDev(trace, "dc") = 1
    /\ CountDev(trace, "spi") = 1
    /\ CountDev(trace, "rst") = 0


====
